---- MODULE Spec2Model ----
(***************************************************************************)
(* A model of moodle-grade-counter: the roster loader, the grade           *)
(* reconciliation of src/app/main.py (evaluate_grades), its reporter       *)
(* (show_grades_summary) and the legacy script src/main.py.                *)
(*                                                                         *)
(* Numbers.  Every score of the model is a multiple of 0.25, kept as an    *)
(* integer count of quarters (7.5 is 30).  Multiples of 0.25 and their     *)
(* sums are exact in binary floating point, so the float arithmetic of     *)
(* the program is exact on this domain.  A stored grade is an int and is   *)
(* kept as such (8 is 8); 4 * g is the stored grade g in quarters.         *)
(*                                                                         *)
(* Text.  CSV fields are strings, as csv hands them over; ParseFloat is    *)
(* float() on the field texts of the model.                                *)
(***************************************************************************)
EXTENDS Integers, Sequences, FiniteSets, TLC

VARIABLES
    class_file,         \* the text of classes/<class>.txt, a sequence of characters
    names,              \* the roster built from it
    grade_file,         \* the grade file's name, as its "-"-separated parts
    table,              \* the data rows csv yields for the grade file, in order
    idx,                \* how many lines / rows the running loop has consumed
    evaluated_grades,   \* evaluate_grades: name -> grade
    submission_status,  \* evaluate_grades: name -> finished flag
    grades,             \* src/main.py: name -> grade
    grade,              \* round_grade: the argument, in quarters
    rounded,            \* round_grade: the value returned
    pc,                 \* where the program is
    err                 \* the exception that ended the program, "none" if none

vars == <<class_file, names, grade_file, table, idx, evaluated_grades,
          submission_status, grades, grade, rounded, pc, err>>

-----------------------------------------------------------------------------
(* Bounds *)

MaxRows == 3
MaxChars == 4
MaxScore == 10

-----------------------------------------------------------------------------
(* Helpers *)

Range(s) == {s[i] : i \in 1..Len(s)}

SeqsUpTo(S, n) == UNION {[1..k -> S] : k \in 0..n}

\* d[k] = v on a Python dict: the key is added when it is not there
Put(d, k, v) == [x \in (DOMAIN d) \cup {k} |-> IF x = k THEN v ELSE d[x]]

Max(S) == CHOOSE m \in S : \A x \in S : x <= m

-----------------------------------------------------------------------------
(* round_grade *)

\* round-half-up, the rule round_grade would follow with floor(grade + 0.5)
RoundHalfUp(q) == (q + 2) \div 4

\* int(round(grade, 0)): Python 3 rounds a float to the nearest integer and a
\* tie to the even neighbour; q is the grade in quarters
RoundGrade(q) ==
    LET fl == q \div 4
        r  == q % 4
    IN  IF r < 2 THEN fl
        ELSE IF r > 2 THEN fl + 1
        ELSE IF fl % 2 = 0 THEN fl ELSE fl + 1

\* float(text) for the field texts of the model, in quarters
ParseFloat(s) ==
    CASE s = "2.25" -> 9
      [] s = "2.50" -> 10
      [] s = "4.00" -> 16
      [] s = "4.25" -> 17
      [] s = "4.50" -> 18
      [] s = "8.50" -> 34

-----------------------------------------------------------------------------
(* Inputs of evaluate_grades: rosters, grade file names and grade tables *)

Rosters == { <<"Doe Jane", "Smith John">>, <<"Doe Jane">> }

\* grade_file.split("-"): a Moodle export name and a name without dashes
GradeFiles == { <<"PRG10S8", "25", "Loops", "grades.csv">>, <<"quiz.csv">> }

Students == { <<"Doe", "Jane">>, <<"Smith", "John">> }

\* the "Q. n /m" fields of an attempt still in progress
InProgressAnswers == { <<"2.50", "-">>, <<"4.25", "4.00">> }

Row(surname, first, state, total, q) ==
    [Surname |-> surname, FirstName |-> first, State |-> state, Grade |-> total, Q |-> q]

FinishedRows ==
    { Row(s[1], s[2], "Finished", g, <<"4.25", "4.00">>) :
          s \in Students, g \in {"8.50", "2.25"} }

InProgressRows ==
    { Row(s[1], s[2], "In progress", "-", q) : s \in Students, q \in InProgressAnswers }

OtherRows == { Row(s[1], s[2], "Never submitted", "-", <<"-", "-">>) : s \in Students }

\* the row Moodle writes under the attempts
SentinelRow == Row("Overall average", "", "", "4.50", <<"2.50", "4.00">>)

Rows == FinishedRows \cup InProgressRows \cup OtherRows \cup {SentinelRow}

Tables == SeqsUpTo(Rows, MaxRows)

-----------------------------------------------------------------------------
(* evaluate_grades *)

\* dict.fromkeys(names[1:], 0): the first roster name left out
InitialGradesSkipFirst(ns) ==
    [n \in (IF ns = <<>> THEN {} ELSE Range(Tail(ns))) |-> 0]

\* dict.fromkeys(names, 0)
InitialGrades(ns) == [n \in Range(ns) |-> 0]

\* dict.fromkeys(names, False)
InitialStatus(ns) == [n \in Range(ns) |-> FALSE]

\* the sentinel test made on the wrong column
IsSentinelByFirstName(row) == row.FirstName = "Overall average"

\* row["Surname"] == "Overall average"
IsSentinel(row) == row.Surname = "Overall average"

\* f"{row['Surname']} {row['First name']}"
StudentName(row) == row.Surname \o " " \o row.FirstName

\* except KeyError: continue -- the row of an unknown student dropped
UnknownStudentSkipped == "continue"

\* the KeyError of evaluated_grades[student_name] is raised on as a ValueError
UnknownStudentOutcome == "raise"

\* the test left out: an unfinished row is never skipped
SkipRowNever(has_finished, status) == FALSE

\* not has_finished and submission_status[student_name]
SkipRow(has_finished, status) == ~has_finished /\ status

\* a finished row keeping the higher of the stored and the new grade
StoreFinishedIfHigher(eg, student_name, row) ==
    Put(eg, student_name, Max({eg[student_name], RoundGrade(ParseFloat(row.Grade))}))

\* evaluated_grades[student_name] = round_grade(float(row[grade_key]))
StoreFinished(eg, student_name, row) ==
    Put(eg, student_name, RoundGrade(ParseFloat(row.Grade)))

\* grade = 0; for key in row: if key starts with "Q. " and row[key] != "-":
\* grade += float(row[key]) -- acc is the sum so far, in quarters
RECURSIVE SumFields(_, _)
SumFields(fields, acc) ==
    IF fields = <<>> THEN acc
    ELSE SumFields(Tail(fields),
                   IF Head(fields) # "-" THEN acc + ParseFloat(Head(fields)) ELSE acc)

\* the in-progress sum stored whatever the grade already stored
StoreInProgressAlways(eg, student_name, sum) ==
    Put(eg, student_name, RoundGrade(sum))

\* if grade > evaluated_grades[student_name]: ... = round_grade(grade)
\* (the unrounded sum is compared with the stored int)
StoreInProgress(eg, student_name, sum) ==
    IF sum > 4 * eg[student_name]
    THEN Put(eg, student_name, RoundGrade(sum))
    ELSE eg

\* One iteration of "for row in reader": the dictionaries after it and how the
\* iteration ends ("break", "raise" or "continue" with the next row)
ProcessRow(row, eg, ss) ==
    IF IsSentinel(row) THEN [eg |-> eg, ss |-> ss, ctl |-> "break"]
    ELSE
      LET student_name == StudentName(row)
          has_finished == row.State = "Finished"
          in_progress  == row.State = "In progress"
      IN  IF student_name \notin DOMAIN eg
          THEN [eg |-> eg, ss |-> ss, ctl |-> UnknownStudentOutcome]
          ELSE IF SkipRow(has_finished, ss[student_name])
          THEN [eg |-> eg, ss |-> ss, ctl |-> "continue"]
          ELSE
            LET eg1 == IF has_finished THEN StoreFinished(eg, student_name, row) ELSE eg
                ss1 == IF has_finished THEN Put(ss, student_name, TRUE) ELSE ss
                eg2 == IF in_progress
                       THEN StoreInProgress(eg1, student_name, SumFields(row.Q, 0))
                       ELSE eg1
            IN  [eg |-> eg2, ss |-> ss1, ctl |-> "continue"]

\* The whole loop over rows: the dictionaries at its end and whether the
\* function returns ("return") or raises ("raise")
RECURSIVE RunRows(_, _, _)
RunRows(rows, eg, ss) ==
    IF rows = <<>> THEN [eg |-> eg, ss |-> ss, ctl |-> "return"]
    ELSE LET r == ProcessRow(Head(rows), eg, ss)
         IN  CASE r.ctl = "continue" -> RunRows(Tail(rows), r.eg, r.ss)
               [] r.ctl = "break"    -> [eg |-> r.eg, ss |-> r.ss, ctl |-> "return"]
               [] OTHER              -> r

-----------------------------------------------------------------------------
(* The main program of src/app/main.py, for one grade file *)

Init ==
    /\ names \in Rosters
    /\ grade_file \in GradeFiles
    /\ table \in Tables
    /\ idx = 0
    /\ evaluated_grades = InitialGrades(names)
    /\ submission_status = InitialStatus(names)
    /\ pc = "rows"
    /\ err = "none"
    /\ class_file = <<>>
    /\ grades = <<>>
    /\ grade = 0
    /\ rounded = 0

\* evaluate_grades, one row of the reader
EvaluateRow ==
    /\ pc = "rows"
    /\ idx < Len(table)
    /\ LET r == ProcessRow(table[idx + 1], evaluated_grades, submission_status)
       IN  /\ evaluated_grades' = r.eg
           /\ submission_status' = r.ss
           /\ pc' = CASE r.ctl = "continue" -> "rows"
                      [] r.ctl = "break"    -> "summary"
                      [] OTHER              -> "raised"
           /\ err' = IF r.ctl = "raise" THEN "ValueError" ELSE err
    /\ idx' = idx + 1
    /\ UNCHANGED <<class_file, names, grade_file, table, grades, grade, rounded>>

\* evaluate_grades, the reader exhausted: return evaluated_grades
EvaluateReturn ==
    /\ pc = "rows"
    /\ idx = Len(table)
    /\ pc' = "summary"
    /\ UNCHANGED <<class_file, names, grade_file, table, idx, evaluated_grades,
                   submission_status, grades, grade, rounded, err>>

\* grade_values = [grade for grade in grades.values() if grade != 0]
GradeValues(eg) == {n \in DOMAIN eg : eg[n] # 0}

\* statistics.mean, median and mode raise StatisticsError on no data,
\* statistics.stdev on fewer than two data points
StatisticsRaise(eg) == Cardinality(GradeValues(eg)) < 2

\* get_task_date (no effect on the grades), then show_grades_summary
ShowGradesSummary ==
    /\ pc = "summary"
    /\ IF Len(grade_file) < 3
       THEN pc' = "raised" /\ err' = "IndexError"
       ELSE IF StatisticsRaise(evaluated_grades)
       THEN pc' = "raised" /\ err' = "StatisticsError"
       ELSE pc' = "prompt" /\ err' = err
    /\ UNCHANGED <<class_file, names, grade_file, table, idx, evaluated_grades,
                   submission_status, grades, grade, rounded>>

\* prompt_grade_input_or_continue: "1" types the grades into the journal,
\* "" goes on, anything else asks again
PromptGradeInputOrContinue ==
    /\ pc = "prompt"
    /\ \E response \in {"1", "", "x"} :
          pc' = IF response \in {"1", ""} THEN "next_file" ELSE "prompt"
    /\ UNCHANGED <<class_file, names, grade_file, table, idx, evaluated_grades,
                   submission_status, grades, grade, rounded, err>>

Next ==
    \/ EvaluateRow
    \/ EvaluateReturn
    \/ ShowGradesSummary
    \/ PromptGradeInputOrContinue

Spec == Init /\ [][Next]_vars

-----------------------------------------------------------------------------
(* What the claims about evaluate_grades speak of, read off the table *)

\* the position of the first row whose Surname is "Overall average"
\* (one past the end when there is none)
SentinelPos ==
    LET S == {j \in 1..Len(table) : table[j].Surname = "Overall average"}
    IN  IF S = {} THEN Len(table) + 1 ELSE CHOOSE j \in S : \A k \in S : j <= k

BeforeSentinel == SubSeq(table, 1, SentinelPos - 1)

\* row j is a row of student n located before the sentinel
RowOf(j, n) ==
    /\ j \in 1..Len(table)
    /\ j < SentinelPos
    /\ table[j].Surname \o " " \o table[j].FirstName = n

\* positions before the sentinel whose name is not a roster name
UnknownRows == {j \in 1..Len(table) : j < SentinelPos /\ ~\E n \in Range(names) : RowOf(j, n)}

\* row j has been processed by the loop as a data row
Consumed(j) == j <= idx /\ j < SentinelPos /\ \A k \in UnknownRows : j < k

\* evaluate_grades has returned its mapping
Returned == pc # "rows" /\ err # "ValueError"

FinishedRowsOf(n) == {j \in 1..idx : Consumed(j) /\ RowOf(j, n) /\ table[j].State = "Finished"}

InProgressRowsOf(n) ==
    {j \in 1..idx : Consumed(j) /\ RowOf(j, n) /\ table[j].State = "In progress"}

\* the sum of the question fields of row j, "-" counted as 0, in quarters
QuestionSum(j) == SumFields(table[j].Q, 0)

\* C1: whenever evaluate_grades returns a mapping, its keys are exactly the
\* roster names, every value is an integer, and a roster name with no row
\* before the sentinel has grade 0
C1_ResultCoversRoster ==
    Returned =>
        /\ DOMAIN evaluated_grades = Range(names)
        /\ \A n \in DOMAIN evaluated_grades : evaluated_grades[n] \in Int
        /\ \A n \in Range(names) :
              (~\E j \in 1..Len(table) : RowOf(j, n)) => evaluated_grades[n] = 0

C1_Witness ==
    /\ Returned
    /\ \E n \in Range(names) : ~\E j \in 1..Len(table) : RowOf(j, n)
    /\ \E n \in Range(names) : evaluated_grades[n] # 0

\* C2: once a Finished row of a name has been processed, a later row of that
\* name whose State is not "Finished" changes neither the name's grade nor
\* its finished flag
C2_FinishedNotDowngraded ==
    [][\A n \in Range(names) :
          ( /\ pc = "rows"
            /\ idx < Len(table)
            /\ FinishedRowsOf(n) # {}
            /\ RowOf(idx + 1, n)
            /\ table[idx + 1].State # "Finished" )
          => /\ evaluated_grades'[n] = evaluated_grades[n]
             /\ submission_status'[n] = submission_status[n]
             /\ submission_status[n]]_vars

\* an in-progress row with a higher sum came after the finished row and the
\* grade is still the finished one
C2_Witness ==
    \E n \in Range(names) : \E j \in FinishedRowsOf(n) : \E k \in InProgressRowsOf(n) :
        /\ j < k
        /\ RoundGrade(QuestionSum(k)) > RoundGrade(ParseFloat(table[j].Grade))
        /\ evaluated_grades[n] = RoundGrade(ParseFloat(table[j].Grade))

\* C3: after a Finished row of a roster name is processed the stored grade is
\* the rounded total of that row, whatever was stored before; with several
\* finished rows processed it is that of the last one
C3_LastFinishedWins ==
    \A n \in Range(names) :
        FinishedRowsOf(n) # {} =>
            evaluated_grades[n] = RoundGrade(ParseFloat(table[Max(FinishedRowsOf(n))].Grade))

\* a finished row with a lower grade than the grade stored before it (from an
\* in-progress row or from an earlier finished row) has been processed
C3_Witness ==
    \E n \in Range(names) : \E k \in FinishedRowsOf(n) :
        /\ k = Max(FinishedRowsOf(n))
        /\ evaluated_grades[n] = RoundGrade(ParseFloat(table[k].Grade))
        /\ \E j \in InProgressRowsOf(n) :
              j < k /\ RoundGrade(QuestionSum(j)) > evaluated_grades[n]
        /\ \E j \in FinishedRowsOf(n) :
              j < k /\ RoundGrade(ParseFloat(table[j].Grade)) > evaluated_grades[n]

\* C4: a row before the sentinel whose name is not a roster name ends the call
\* with the ValueError, whatever its State and whatever came before it; the
\* loop never goes past it and no mapping is returned
C4_UnknownNameRaises ==
    /\ \A j \in UnknownRows :
          /\ idx <= j
          /\ idx = j => (pc = "raised" /\ err = "ValueError")
    /\ Returned => UnknownRows = {}

\* the row of an unknown student in a State that is neither Finished nor
\* In progress, after other rows, has raised
C4_Witness ==
    /\ pc = "raised"
    /\ err = "ValueError"
    /\ idx >= 2
    /\ idx \in UnknownRows
    /\ table[idx].State = "Never submitted"

\* C5: the outcome of evaluate_grades is the outcome of the loop on the rows
\* before the first sentinel row; the reader is never advanced past it
C5_OnlyRowsBeforeSentinel ==
    /\ idx <= SentinelPos
    /\ pc # "rows" =>
         LET ref == RunRows(BeforeSentinel, InitialGrades(names), InitialStatus(names))
         IN  /\ (ref.ctl = "raise") = (err = "ValueError")
             /\ ref.ctl = "return" => evaluated_grades = ref.eg

\* the call returned at a sentinel that is followed by the finished row of a
\* roster name with another grade and by the row of an unknown student
C5_Witness ==
    /\ Returned
    /\ idx = SentinelPos
    /\ \E j \in (idx + 1)..Len(table) : \E n \in Range(names) :
          /\ table[j].Surname \o " " \o table[j].FirstName = n
          /\ table[j].State = "Finished"
          /\ RoundGrade(ParseFloat(table[j].Grade)) # evaluated_grades[n]
    /\ \E j \in (idx + 1)..Len(table) :
          /\ table[j].Surname # "Overall average"
          /\ table[j].Surname \o " " \o table[j].FirstName \notin Range(names)

\* the grade of a name without finished row is the greatest of 0 and the
\* rounded sums of its in-progress rows processed so far
C6_MaxOfRoundedSums ==
    \A n \in Range(names) :
        FinishedRowsOf(n) = {} =>
            evaluated_grades[n] =
                Max({0} \cup {RoundGrade(QuestionSum(j)) : j \in InProgressRowsOf(n)})

\* C6: for a roster name with no Finished row the stored grade never
\* decreases from row to row and is the maximum of 0 and the rounded sums of
\* the question fields of its In progress rows
C6_InProgressKeepsMax ==
    /\ []C6_MaxOfRoundedSums
    /\ [][\A n \in Range(names) :
             ~submission_status'[n] => evaluated_grades'[n] >= evaluated_grades[n]]_vars

\* two in-progress rows of one name: the second sum exceeds the stored int
\* and rounds to it (2.5 against a stored 2)
C6_Witness ==
    \E n \in Range(names) : \E j, k \in InProgressRowsOf(n) :
        /\ FinishedRowsOf(n) = {}
        /\ j < k
        /\ QuestionSum(k) > 4 * RoundGrade(QuestionSum(j))
        /\ RoundGrade(QuestionSum(k)) = RoundGrade(QuestionSum(j))
        /\ evaluated_grades[n] = RoundGrade(QuestionSum(k))

\* C9 (as claimed): for every mapping evaluate_grades returns, for a grade
\* file named like a Moodle export, show_grades_summary completes and the
\* main loop goes on
C9_SummaryCompletes ==
    (Returned /\ pc # "summary" /\ Len(grade_file) >= 3) => pc \in {"prompt", "next_file"}

-----------------------------------------------------------------------------
(* round_grade on its own *)

InitRound ==
    /\ grade \in (-4 * MaxScore)..(4 * MaxScore)
    /\ rounded = 0
    /\ pc = "round_grade"
    /\ err = "none"
    /\ class_file = <<>>
    /\ names = <<>>
    /\ grade_file = <<>>
    /\ table = <<>>
    /\ idx = 0
    /\ evaluated_grades = <<>>
    /\ submission_status = <<>>
    /\ grades = <<>>

\* round_grade(grade)
RoundGradeCall ==
    /\ pc = "round_grade"
    /\ rounded' = RoundGrade(grade)
    /\ pc' = "rounded"
    /\ UNCHANGED <<class_file, names, grade_file, table, idx, evaluated_grades,
                   submission_status, grades, grade, err>>

NextRound == RoundGradeCall

SpecRound == InitRound /\ [][NextRound]_vars

\* C7: round_grade returns an integer nearest to the grade (at most half a
\* point away), the even one when two are as near: 7.5 gives 8, 8.5 gives 8
C7_RoundHalfToEven ==
    pc = "rounded" =>
        /\ rounded \in Int
        /\ 4 * rounded - grade \in -2..2
        /\ (4 * rounded - grade \in {-2, 2}) => rounded % 2 = 0
        /\ grade = 30 => rounded = 8
        /\ grade = 34 => rounded = 8

\* 8.5 has been rounded, to 8
C7_Witness == pc = "rounded" /\ grade = 34 /\ rounded = 8

-----------------------------------------------------------------------------
(* retrieve_student_names and the mapping built from the roster *)

Chars == {"A", " ", "\n"}

ClassFiles == SeqsUpTo(Chars, MaxChars)

\* "for line in file": the lines of the text, each with its line end
RECURSIVE ReadLines(_, _)
ReadLines(text, line) ==
    IF text = <<>> THEN (IF line = <<>> THEN <<>> ELSE <<line>>)
    ELSE IF Head(text) = "\n"
         THEN <<Append(line, "\n")>> \o ReadLines(Tail(text), <<>>)
         ELSE ReadLines(Tail(text), Append(line, Head(text)))

IsSpace(c) == c \in {" ", "\n"}

RECURSIVE LStrip(_)
LStrip(s) == IF s # <<>> /\ IsSpace(Head(s)) THEN LStrip(Tail(s)) ELSE s

RECURSIVE RStrip(_)
RStrip(s) ==
    IF s # <<>> /\ IsSpace(s[Len(s)]) THEN RStrip(SubSeq(s, 1, Len(s) - 1)) ELSE s

\* line.strip(): leading and trailing white space removed
Strip(s) == RStrip(LStrip(s))

\* the characters as one string
RECURSIVE Str(_)
Str(s) == IF s = <<>> THEN "" ELSE Head(s) \o Str(Tail(s))

InitRoster ==
    /\ class_file \in ClassFiles
    /\ names = <<>>
    /\ idx = 0
    /\ pc = "retrieve"
    /\ err = "none"
    /\ grade_file = <<>>
    /\ table = <<>>
    /\ evaluated_grades = <<>>
    /\ submission_status = <<>>
    /\ grades = <<>>
    /\ grade = 0
    /\ rounded = 0

\* retrieve_student_names, one line of the file: names.append(line.strip())
RetrieveLine ==
    /\ pc = "retrieve"
    /\ idx < Len(ReadLines(class_file, <<>>))
    /\ names' = Append(names, Str(Strip(ReadLines(class_file, <<>>)[idx + 1])))
    /\ idx' = idx + 1
    /\ UNCHANGED <<class_file, grade_file, table, evaluated_grades, submission_status,
                   grades, grade, rounded, pc, err>>

\* retrieve_student_names, the file exhausted: return names
RetrieveReturn ==
    /\ pc = "retrieve"
    /\ idx = Len(ReadLines(class_file, <<>>))
    /\ pc' = "names"
    /\ UNCHANGED <<class_file, names, grade_file, table, idx, evaluated_grades,
                   submission_status, grades, grade, rounded, err>>

\* the roster sorted (the same names in another order) and the dictionaries
\* of evaluate_grades built from it
BuildGrades ==
    /\ pc = "names"
    /\ evaluated_grades' = InitialGrades(names)
    /\ submission_status' = InitialStatus(names)
    /\ pc' = "rows"
    /\ idx' = 0
    /\ UNCHANGED <<class_file, names, grade_file, table, grades, grade, rounded, err>>

NextRoster ==
    \/ RetrieveLine
    \/ RetrieveReturn
    \/ BuildGrades

SpecRoster == InitRoster /\ [][NextRoster]_vars

\* the lines of the class file that hold something besides white space
NonEmptyLines ==
    {i \in 1..Len(ReadLines(class_file, <<>>)) : Strip(ReadLines(class_file, <<>>)[i]) # <<>>}

\* C8 (as claimed): retrieve_student_names returns one string per non-empty
\* line; a blank line gives no roster entry, so neither the roster nor the
\* grade mapping holds the empty string
C8_NoEmptyName ==
    pc # "retrieve" =>
        /\ Len(names) = Cardinality(NonEmptyLines)
        /\ "" \notin Range(names)
        /\ pc = "rows" => "" \notin DOMAIN evaluated_grades

-----------------------------------------------------------------------------
(* The legacy script src/main.py.  A row is the list csv.reader yields:    *)
(* row[i] of the script is row[i + 1] here.                                *)

LegacyRoster == <<"Doe Jane", "Smith John">>

LegacyStudents == { <<"Doe", "Jane">>, <<"Smith", "John">>, <<"Roe", "Max">> }

LegacyRow(surname, first, state, total, q1, q2) ==
    <<surname, first, "", state, "", "", "", total, q1, q2>>

LegacyHeader ==
    <<"Surname", "First name", "Email address", "State", "Started on", "Completed",
      "Time taken", "Grade/10.00", "Q. 1 /5.00", "Q. 2 /5.00">>

LegacyRows ==
    {LegacyHeader, LegacyRow("Overall average", "", "", "4.50", "2.50", "4.00")}
    \cup { LegacyRow(s[1], s[2], "Finished", g, "4.25", "4.00") :
              s \in LegacyStudents, g \in {"8.50", "2.25"} }
    \cup { LegacyRow(s[1], s[2], "In progress", q[1], q[2], q[3]) :
              s \in LegacyStudents,
              q \in { <<"-", "2.50", "-">>, <<"-", "4.25", "4.00">>, <<"2.25", "-", "4.00">> } }
    \cup { LegacyRow(s[1], s[2], "Never submitted", "-", "-", "-") : s \in LegacyStudents }

LegacyTables == SeqsUpTo(LegacyRows, MaxRows)

\* a fresh sum per row: the stored grade is not part of it
LegacyFreshSum(fields, acc) == SumFields(fields, 0)

\* for i in range(7, len(row)): if row[i] != '-': grades[name] += float(row[i])
\* -- acc is grades[name] as the loop goes, in quarters
RECURSIVE LegacyAccumulate(_, _)
LegacyAccumulate(fields, acc) ==
    IF fields = <<>> THEN acc
    ELSE LegacyAccumulate(Tail(fields),
                          IF Head(fields) # "-" THEN acc + ParseFloat(Head(fields)) ELSE acc)

InitLegacy ==
    /\ names = LegacyRoster
    /\ grades = [n \in Range(LegacyRoster) |-> 0]
    /\ table \in LegacyTables
    /\ idx = 0
    /\ pc = "legacy_rows"
    /\ err = "none"
    /\ class_file = <<>>
    /\ grade_file = <<>>
    /\ evaluated_grades = <<>>
    /\ submission_status = <<>>
    /\ grade = 0
    /\ rounded = 0

\* one iteration of "for row in reader"
LegacyRowStep ==
    /\ pc = "legacy_rows"
    /\ idx < Len(table)
    /\ LET row         == table[idx + 1]
           name        == row[1] \o " " \o row[2]
           finished    == row[4] = "Finished"
           in_progress == row[4] = "In progress"
       IN  IF finished
           THEN /\ grades' = Put(grades, name, RoundGrade(ParseFloat(row[8])))
                /\ UNCHANGED <<pc, err>>
           ELSE IF in_progress
           THEN IF name \in DOMAIN grades
                THEN /\ grades' = Put(grades, name,
                                      RoundGrade(LegacyAccumulate(SubSeq(row, 8, Len(row)),
                                                                  4 * grades[name])))
                     /\ UNCHANGED <<pc, err>>
                ELSE /\ pc' = "raised"
                     /\ err' = "KeyError"
                     /\ UNCHANGED grades
           ELSE UNCHANGED <<grades, pc, err>>
    /\ idx' = idx + 1
    /\ UNCHANGED <<class_file, names, grade_file, table, evaluated_grades,
                   submission_status, grade, rounded>>

\* the reader exhausted: the grades are printed
LegacyPrint ==
    /\ pc = "legacy_rows"
    /\ idx = Len(table)
    /\ pc' = "printed"
    /\ UNCHANGED <<class_file, names, grade_file, table, idx, evaluated_grades,
                   submission_status, grades, grade, rounded, err>>

NextLegacy ==
    \/ LegacyRowStep
    \/ LegacyPrint

SpecLegacy == InitLegacy /\ [][NextLegacy]_vars

\* the sum of the fields of the row from column 7 on that are not "-"
RECURSIVE FieldTotal(_, _)
FieldTotal(row, cols) ==
    IF cols = {} THEN 0
    ELSE LET c == CHOOSE x \in cols : TRUE
         IN  (IF row[c] = "-" THEN 0 ELSE ParseFloat(row[c])) + FieldTotal(row, cols \ {c})

\* C10: in src/main.py an In progress row adds its fields from column 7 on to
\* the grade stored for the name and stores the rounded result:
\* new grade = round(previous grade + the row's field sum)
C10_LegacyAccumulates ==
    [][( /\ pc = "legacy_rows"
         /\ idx < Len(table)
         /\ table[idx + 1][4] = "In progress"
         /\ table[idx + 1][1] \o " " \o table[idx + 1][2] \in DOMAIN grades )
       => grades'[table[idx + 1][1] \o " " \o table[idx + 1][2]] =
            RoundGrade(4 * grades[table[idx + 1][1] \o " " \o table[idx + 1][2]]
                       + FieldTotal(table[idx + 1], 8..Len(table[idx + 1])))]_vars

\* a finished row, then two in-progress rows of the same name: the grade is
\* the finished grade with both sums added, each step rounded
C10_Witness ==
    /\ idx = 3
    /\ pc = "legacy_rows"
    /\ \E n \in DOMAIN grades :
          /\ \A j \in 1..3 : table[j][1] \o " " \o table[j][2] = n
          /\ table[1][4] = "Finished"
          /\ table[2][4] = "In progress"
          /\ table[3][4] = "In progress"
          /\ grades[n] =
               RoundGrade(4 * RoundGrade(4 * RoundGrade(ParseFloat(table[1][8]))
                                         + FieldTotal(table[2], 8..10))
                          + FieldTotal(table[3], 8..10))
          /\ grades[n] > RoundGrade(ParseFloat(table[1][8]))

====
